---------------------------- MODULE Spec2Model ----------------------------
(***************************************************************************)
(* A model of src/src/euler2d_dg/mod.c, the two-dimensional Euler solver   *)
(* of sailfish on a discontinuous Galerkin basis: the hydro primitives,    *)
(* the Patch view, the per-zone kernels (advance_rk_zone_dg,               *)
(* limit_characteristic_slopes_zone, wavespeed_zone) and the four public   *)
(* entry points with their execution-mode dispatch.                        *)
(*                                                                         *)
(* Numbers.  The code computes in IEEE doubles.  The model computes in     *)
(* exact rationals <<n, d>> (d > 0, lowest terms): +, -, * and / are the   *)
(* real operations, sqrt is exact on the square of a rational and rounded  *)
(* down to a multiple of 1/SqrtScale elsewhere, and every                  *)
(* non-finite result (x/0, sqrt of a negative, any operation on a          *)
(* non-finite operand) is the single value NaN == <<0, 0>>, which compares *)
(* unequal to everything, itself included, as the IEEE NaN does.           *)
(***************************************************************************)
EXTENDS Integers, Sequences, FiniteSets, TLC

-----------------------------------------------------------------------------
(* Bounds of the model. *)

\* the largest mesh.ni the callers of the model pass
MaxNi == 2
\* the largest mesh.nj the callers of the model pass
MaxNj == 2
\* the root of a number that is no square of a rational is rounded down to a
\* multiple of 1/SqrtScale
SqrtScale == 4
\* the number of limit_slopes passes the caller chains (swap the buffers,
\* fill the guards, call again)
MaxPasses == 2
\* the most polynomial coefficients per field a mesh of the model holds:
\* num_polynomials * ni * nj
MaxDof == 30
\* the reals past the end of a buffer that the model keeps track of
Slack == 3
\* the longest array euler2d_dg_maximum is called with
MaxSize == 2

-----------------------------------------------------------------------------
(* Program constants. *)

NCONS == 4
NUM_GUARD == 1
MAX_NUM_FIELDS == 24

-----------------------------------------------------------------------------
(* MATH: the reals of the code. *)

NaN == <<0, 0>>

IsNaN(x) == x[2] = 0

IAbs(n) == IF n < 0 THEN -n ELSE n

RECURSIVE GCD(_, _)
GCD(a, b) == IF b = 0 THEN a ELSE GCD(b, a % b)

Norm(n, d) ==
    IF d = 0 THEN NaN
    ELSE IF n = 0 THEN <<0, 1>>
    ELSE LET g == GCD(IAbs(n), IAbs(d))
             s == IF d < 0 THEN -1 ELSE 1
         IN  <<(s * n) \div g, (s * d) \div g>>

R(n) == <<n, 1>>
Zero == <<0, 1>>
One == <<1, 1>>
Half == <<1, 2>>

RAdd(x, y) ==
    IF x[2] = 0 \/ y[2] = 0 THEN NaN
    ELSE IF x[1] = 0 THEN y
    ELSE IF y[1] = 0 THEN x
    ELSE IF x[2] = y[2] THEN Norm(x[1] + y[1], x[2])
    ELSE LET g == GCD(x[2], y[2])
         IN  Norm(x[1] * (y[2] \div g) + y[1] * (x[2] \div g), x[2] * (y[2] \div g))

RNeg(x) == <<-x[1], x[2]>>

RSub(x, y) == RAdd(x, RNeg(y))

RMul(x, y) ==
    IF x[2] = 0 \/ y[2] = 0 THEN NaN
    ELSE IF x[1] = 0 \/ y[1] = 0 THEN Zero
    ELSE IF x[2] = 1 /\ y[2] = 1 THEN <<x[1] * y[1], 1>>
    ELSE LET g1 == GCD(IAbs(x[1]), y[2])
             g2 == GCD(IAbs(y[1]), x[2])
         IN  <<(x[1] \div g1) * (y[1] \div g2), (x[2] \div g2) * (y[2] \div g1)>>

RInv(y) == IF y[1] < 0 THEN <<-y[2], -y[1]>> ELSE <<y[2], y[1]>>

RDiv(x, y) ==
    IF x[2] = 0 \/ y[2] = 0 \/ y[1] = 0 THEN NaN
    ELSE RMul(x, RInv(y))

\* x < y, x <= y, x > y, x != y of the code: false (true for !=) on a NaN
RLt(x, y) == x[2] # 0 /\ y[2] # 0 /\ x[1] * y[2] < y[1] * x[2]
RLe(x, y) == x[2] # 0 /\ y[2] # 0 /\ x[1] * y[2] <= y[1] * x[2]
RGt(x, y) == RLt(y, x)
RNe(x, y) == x[2] = 0 \/ y[2] = 0 \/ x # y
REq(x, y) == ~RNe(x, y)

min2(a, b) == IF RLt(a, b) THEN a ELSE b
max2(a, b) == IF RGt(a, b) THEN a ELSE b
min3(a, b, c) == min2(a, min2(b, c))
max3(a, b, c) == max2(a, max2(b, c))

fabs(x) == <<IAbs(x[1]), x[2]>>

\* copysign(1.0, x): the model has one zero, the positive one
sign(x) == IF x[1] < 0 THEN R(-1) ELSE One

minabs(a, b, c) == min3(fabs(a), fabs(b), fabs(c))

RECURSIVE ISqrtIn(_, _, _)
\* the largest r in lo..hi with r * r <= n
ISqrtIn(n, lo, hi) ==
    IF lo >= hi THEN lo
    ELSE LET mid == (lo + hi + 1) \div 2
         IN  IF mid * mid <= n THEN ISqrtIn(n, mid, hi) ELSE ISqrtIn(n, lo, mid - 1)

ISqrt(n) == ISqrtIn(n, 0, IF n < 46340 THEN n ELSE 46340)

sqrt(x) ==
    IF x[2] = 0 \/ x[1] < 0 THEN NaN
    ELSE LET rn == ISqrt(x[1])
             rd == ISqrt(x[2])
         IN  IF rn * rn = x[1] /\ rd * rd = x[2] THEN <<rn, rd>>
             ELSE Norm(ISqrt((x[1] * SqrtScale * SqrtScale) \div x[2]), SqrtScale)

ADIABATIC_GAMMA == <<5, 3>>


-----------------------------------------------------------------------------
(* HYDRO.  A state of NCONS reals is a tuple; the code's index q is       *)
(* component q + 1 of the tuple.                                           *)

num_polynomials(cell) ==
    CASE cell.order = 1 -> 1
      [] cell.order = 2 -> 3
      [] cell.order = 3 -> 6
      [] cell.order = 4 -> 10
      [] cell.order = 5 -> 15
      [] OTHER -> 0

num_quadrature_points(cell) == cell.order * cell.order

\* the primitives of density rho, velocity (vx, vy) and total energy
PrimitiveOf(rho, vx, vy, energy) ==
    LET kinetic_energy == RMul(RMul(Half, rho), RAdd(RMul(vx, vx), RMul(vy, vy)))
        thermal_energy == RSub(energy, kinetic_energy)
        pressure == RMul(thermal_energy, RSub(ADIABATIC_GAMMA, One))
    IN  <<rho, vx, vy, pressure>>

conserved_to_primitive(cons) ==
    PrimitiveOf(cons[1], RDiv(cons[2], cons[1]), RDiv(cons[3], cons[1]), cons[4])

primitive_to_conserved(prim) ==
    LET rho      == prim[1]
        vx       == prim[2]
        vy       == prim[3]
        pressure == prim[4]
        px == RMul(vx, rho)
        py == RMul(vy, rho)
        kinetic_energy == RMul(RMul(Half, rho), RAdd(RMul(vx, vx), RMul(vy, vy)))
        thermal_energy == RDiv(pressure, RSub(ADIABATIC_GAMMA, One))
    IN  <<rho, px, py, RAdd(kinetic_energy, thermal_energy)>>

primitive_to_velocity_component(prim, direction) ==
    CASE direction = 0 -> prim[2]
      [] direction = 1 -> prim[3]
      [] OTHER -> Zero

\* (direction == d) of the code, as the real 1.0 or 0.0 it multiplies with
IsDir(direction, d) == IF direction = d THEN One ELSE Zero

primitive_to_flux(prim, cons, direction) ==
    LET vn == primitive_to_velocity_component(prim, direction)
        pressure == prim[4]
    IN  << RMul(vn, cons[1]),
           RAdd(RMul(vn, cons[2]), RMul(pressure, IsDir(direction, 0))),
           RAdd(RMul(vn, cons[3]), RMul(pressure, IsDir(direction, 1))),
           RAdd(RMul(vn, cons[4]), RMul(pressure, vn)) >>

primitive_to_sound_speed_squared(prim) ==
    RDiv(RMul(ADIABATIC_GAMMA, prim[4]), prim[1])

\* <<vn - cs, vn + cs>>
OuterWavespeeds(vn, cs) == <<RSub(vn, cs), RAdd(vn, cs)>>

primitive_to_outer_wavespeeds(prim, direction) ==
    OuterWavespeeds(primitive_to_velocity_component(prim, direction),
                    sqrt(primitive_to_sound_speed_squared(prim)))

\* max2(max2(fabs(vx - cs), fabs(vx + cs)), max2(fabs(vy - cs), fabs(vy + cs)))
MaxWavespeed(vx, vy, cs) ==
    max2(max2(fabs(RSub(vx, cs)), fabs(RAdd(vx, cs))),
         max2(fabs(RSub(vy, cs)), fabs(RAdd(vy, cs))))

primitive_max_wavespeed(prim) ==
    MaxWavespeed(prim[2], prim[3], sqrt(primitive_to_sound_speed_squared(prim)))

\* HlleFlux with the sign of the term fr[q] * am reversed
HlleFlux_plus(fl, fr, ul, ur, am, ap, q) ==
    RDiv(RSub(RAdd(RMul(fl[q], ap), RMul(fr[q], am)),
              RMul(RMul(RSub(ul[q], ur[q]), ap), am)),
         RSub(ap, am))

\* component q of the HLLE flux
HlleFlux(fl, fr, ul, ur, am, ap, q) ==
    RDiv(RSub(RSub(RMul(fl[q], ap), RMul(fr[q], am)),
              RMul(RMul(RSub(ul[q], ur[q]), ap), am)),
         RSub(ap, am))

HlleFluxes(fl, fr, ul, ur, am, ap) ==
    << HlleFlux(fl, fr, ul, ur, am, ap, 1), HlleFlux(fl, fr, ul, ur, am, ap, 2),
       HlleFlux(fl, fr, ul, ur, am, ap, 3), HlleFlux(fl, fr, ul, ur, am, ap, 4) >>

\* the HLLE flux of the fluxes fl, fr, the conserved states ul, ur and the
\* outer wavespeeds al, ar of the two sides
HlleOf(fl, fr, ul, ur, al, ar) ==
    HlleFluxes(fl, fr, ul, ur, min2(Zero, min2(al[1], ar[1])), max2(Zero, max2(al[2], ar[2])))

HlleSides(pl, pr, ul, ur, direction) ==
    HlleOf(primitive_to_flux(pl, ul, direction), primitive_to_flux(pr, ur, direction), ul, ur,
           primitive_to_outer_wavespeeds(pl, direction),
           primitive_to_outer_wavespeeds(pr, direction))

riemann_hlle(pl, pr, direction) ==
    HlleSides(pl, pr, primitive_to_conserved(pl), primitive_to_conserved(pr), direction)

minmodTVB(w1, w0l, w0, w0r, dl) ==
    LET BETA_TVB == One
        a == RMul(w1, sqrt(R(3)))
        b == RMul(RSub(w0, w0l), BETA_TVB)
        c == RMul(RSub(w0r, w0), BETA_TVB)
        M == R(10)
    IN  IF RLe(fabs(a), RMul(RMul(M, dl), dl))
        THEN w1
        ELSE LET x1 == RMul(fabs(RAdd(sign(a), sign(b))), RAdd(sign(a), sign(c)))
                 x2 == minabs(a, b, c)
             IN  RMul(RMul(RDiv(<<1, 4>>, sqrt(R(3))), x1), x2)

\* minmodB without the fabs around sign(a) + sign(b)
minmodB_nofabs(a, b, c, dl) ==
    LET M == One
    IN  IF RLe(fabs(a), RMul(RMul(M, dl), dl))
        THEN a
        ELSE LET x1 == RMul(RAdd(sign(a), sign(b)), RAdd(sign(a), sign(c)))
                 x2 == minabs(a, b, c)
             IN  RMul(RMul(<<1, 4>>, x1), x2)

minmodB(a, b, c, dl) ==
    LET M == One
    IN  IF RLe(fabs(a), RMul(RMul(M, dl), dl))
        THEN a
        ELSE LET x1 == RMul(fabs(RAdd(sign(a), sign(b))), RAdd(sign(a), sign(c)))
                 x2 == minabs(a, b, c)
             IN  RMul(RMul(<<1, 4>>, x1), x2)

-----------------------------------------------------------------------------
(* PATCH.  A Patch is the struct without its data pointer: the kernels     *)
(* below take the buffer the pointer names as a separate argument, and     *)
(* GET gives the offset of a cell in it.                                   *)

\* patch with the stride of i taken from count[0], the extent along i
patch_count0(mesh, num_fields, num_guard) ==
    [ start      |-> <<-num_guard, -num_guard>>,
      count      |-> <<mesh.ni + 2 * num_guard, mesh.nj + 2 * num_guard>>,
      jumps      |-> <<num_fields * (mesh.ni + 2 * num_guard), num_fields>>,
      num_fields |-> num_fields ]

patch(mesh, num_fields, num_guard) ==
    [ start      |-> <<-num_guard, -num_guard>>,
      count      |-> <<mesh.ni + 2 * num_guard, mesh.nj + 2 * num_guard>>,
      jumps      |-> <<num_fields * (mesh.nj + 2 * num_guard), num_fields>>,
      num_fields |-> num_fields ]

GET(p, i, j) == p.jumps[1] * (i - p.start[1]) + p.jumps[2] * (j - p.start[2])

\* FOR_EACH with the loop over i ending one row early
FOR_EACH_short(p, ng) ==
    { <<i, j>> \in ((p.start[1] + ng)..(p.start[1] + p.count[1] - ng - 2))
                   \X ((p.start[2] + ng)..(p.start[2] + p.count[2] - ng - 1)) : TRUE }

\* the (i, j) that FOR_EACH(p, ng) visits, in the order it visits them
FOR_EACH(p, ng) ==
    { <<i, j>> \in ((p.start[1] + ng)..(p.start[1] + p.count[1] - ng - 1))
                   \X ((p.start[2] + ng)..(p.start[2] + p.count[2] - ng - 1)) : TRUE }

-----------------------------------------------------------------------------
(* The tabulated Cell (struct Cell and struct NodeData of sailfish.h, which *)
(* the caller fills): a monomial basis phi_l = x^a y^b, with l = 0 the      *)
(* mean, l = 1 the y slope, l = 2 the x slope, sampled at nodes with        *)
(* coordinates in {-1, 0, 1}.  The face weights carry the sign of the       *)
(* outward normal (left faces -1, right faces +1), the interior weights are *)
(* 1.                                                                       *)

\* the degree a + b of the monomial of mode l (l < 15: degree at most 4)
Degree(l) ==
    IF l < 1 THEN 0 ELSE IF l < 3 THEN 1 ELSE IF l < 6 THEN 2 ELSE IF l < 10 THEN 3 ELSE 4

ExpX(l) == l - (Degree(l) * (Degree(l) + 1)) \div 2
ExpY(l) == Degree(l) - ExpX(l)

Pow(x, a) ==
    IF a = 0 THEN 1
    ELSE IF x = 0 THEN 0
    ELSE IF x = 1 \/ a % 2 = 0 THEN 1 ELSE -1

Coord(k) == (k % 3) - 1

NodeX(cell, where, qp) ==
    CASE where = "li" -> -1
      [] where = "ri" -> 1
      [] where = "lj" -> Coord(qp)
      [] where = "rj" -> Coord(qp)
      [] OTHER -> Coord(qp % cell.order)

NodeY(cell, where, qp) ==
    CASE where = "li" -> Coord(qp)
      [] where = "ri" -> Coord(qp)
      [] where = "lj" -> -1
      [] where = "rj" -> 1
      [] OTHER -> Coord(qp \div cell.order)

\* cell.<where>[qp].phi[l]
phi(cell, where, qp, l) ==
    R(Pow(NodeX(cell, where, qp), ExpX(l)) * Pow(NodeY(cell, where, qp), ExpY(l)))

\* cell.interior_nodes[qp].dphi_dx[l]
dphi_dx(cell, qp, l) ==
    IF ExpX(l) = 0 THEN Zero
    ELSE R(ExpX(l) * Pow(NodeX(cell, "in", qp), ExpX(l) - 1)
                   * Pow(NodeY(cell, "in", qp), ExpY(l)))

\* cell.interior_nodes[qp].dphi_dy[l]
dphi_dy(cell, qp, l) ==
    IF ExpY(l) = 0 THEN Zero
    ELSE R(ExpY(l) * Pow(NodeX(cell, "in", qp), ExpX(l))
                   * Pow(NodeY(cell, "in", qp), ExpY(l) - 1))

\* cell.<where>[qp].weight
weight(cell, where, qp) ==
    IF where \in {"li", "lj"} THEN R(-1) ELSE One

-----------------------------------------------------------------------------
(* SCHEME *)

\* a per-zone scratch array of MAX_NUM_FIELDS reals, read at index k after
\* the kernel stored v there: a store beyond the array is undefined, and the
\* load gives v (the store survived in the frame) or what overwrote it
ClobberValue == <<7, 1>>
ScratchOutcomes == {"kept", "clobbered"}
ScratchLoad(v, k, outcome) ==
    IF k < MAX_NUM_FIELDS \/ outcome = "kept" THEN v ELSE ClobberValue

\* the indices q * n_poly + l at which advance_rk_zone_dg stores into dwij
ScratchStores(cell) ==
    { q * num_polynomials(cell) + l :
        q \in 0..(NCONS - 1), l \in 0..(num_polynomials(cell) - 1) }

\* the indices q * n_poly + 2 and q * n_poly + 1 at which
\* limit_conserved_slopes_zone stores into wtilde
WtildeStores(cell) ==
    { q * num_polynomials(cell) + l : q \in 0..(NCONS - 1), l \in {2, 1} }

RECURSIVE ReconstructIn(_, _, _, _, _, _, _, _)
\* sum over lo <= l <= hi of w[q * n_poly + l] * cell.<where>[qp].phi[l],
\* with w at offset base of the buffer data; the sum is exact, so the order
\* the loop adds in does not show
ReconstructIn(cell, data, base, q, where, qp, lo, hi) ==
    IF lo > hi THEN Zero
    ELSE IF lo = hi
    THEN RMul(data[base + q * num_polynomials(cell) + lo], phi(cell, where, qp, lo))
    ELSE LET mid == (lo + hi) \div 2
         IN  RAdd(ReconstructIn(cell, data, base, q, where, qp, lo, mid),
                  ReconstructIn(cell, data, base, q, where, qp, mid + 1, hi))

Reconstruct(cell, data, base, q, where, qp, n) ==
    ReconstructIn(cell, data, base, q, where, qp, 0, n - 1)

ReconstructCons(cell, data, base, where, qp) ==
    LET n_poly == num_polynomials(cell)
    IN  << Reconstruct(cell, data, base, 0, where, qp, n_poly),
           Reconstruct(cell, data, base, 1, where, qp, n_poly),
           Reconstruct(cell, data, base, 2, where, qp, n_poly),
           Reconstruct(cell, data, base, 3, where, qp, n_poly) >>

\* the four Riemann fluxes <<fli, fri, flj, frj>> of face node qp of zone (i, j)
SurfaceFluxes(cell, weights_rd, data, i, j, qp) ==
    LET wij == GET(weights_rd, i, j)
        wli == GET(weights_rd, i - 1, j)
        wri == GET(weights_rd, i + 1, j)
        wlj == GET(weights_rd, i, j - 1)
        wrj == GET(weights_rd, i, j + 1)
        ulim == ReconstructCons(cell, data, wli, "ri", qp)
        ulip == ReconstructCons(cell, data, wij, "li", qp)
        urim == ReconstructCons(cell, data, wij, "ri", qp)
        urip == ReconstructCons(cell, data, wri, "li", qp)
        uljm == ReconstructCons(cell, data, wlj, "rj", qp)
        uljp == ReconstructCons(cell, data, wij, "lj", qp)
        urjm == ReconstructCons(cell, data, wij, "rj", qp)
        urjp == ReconstructCons(cell, data, wrj, "lj", qp)
    IN  << riemann_hlle(conserved_to_primitive(ulim), conserved_to_primitive(ulip), 0),
           riemann_hlle(conserved_to_primitive(urim), conserved_to_primitive(urip), 0),
           riemann_hlle(conserved_to_primitive(uljm), conserved_to_primitive(uljp), 1),
           riemann_hlle(conserved_to_primitive(urjm), conserved_to_primitive(urjp), 1) >>

RECURSIVE SurfaceFluxesIn(_, _, _, _, _, _, _)
\* the fluxes of the face nodes lo .. hi, in a sequence
SurfaceFluxesIn(cell, weights_rd, data, i, j, lo, hi) ==
    IF lo > hi THEN <<>>
    ELSE IF lo = hi THEN <<SurfaceFluxes(cell, weights_rd, data, i, j, lo)>>
    ELSE LET mid == (lo + hi) \div 2
         IN  SurfaceFluxesIn(cell, weights_rd, data, i, j, lo, mid)
             \o SurfaceFluxesIn(cell, weights_rd, data, i, j, mid + 1, hi)

\* <<flux_x, flux_y>> at interior node qp of zone (i, j)
VolumeFluxes(cell, weights_rd, data, i, j, qp) ==
    LET cons == ReconstructCons(cell, data, GET(weights_rd, i, j), "in", qp)
        primitive == conserved_to_primitive(cons)
    IN  << primitive_to_flux(primitive, cons, 0), primitive_to_flux(primitive, cons, 1) >>

RECURSIVE VolumeFluxesIn(_, _, _, _, _, _, _)
\* the fluxes of the interior nodes lo .. hi, in a sequence
VolumeFluxesIn(cell, weights_rd, data, i, j, lo, hi) ==
    IF lo > hi THEN <<>>
    ELSE IF lo = hi THEN <<VolumeFluxes(cell, weights_rd, data, i, j, lo)>>
    ELSE LET mid == (lo + hi) \div 2
         IN  VolumeFluxesIn(cell, weights_rd, data, i, j, lo, mid)
             \o VolumeFluxesIn(cell, weights_rd, data, i, j, mid + 1, hi)

\* what face node qp takes from dwij[q * n_poly + l]
SurfaceNode(cell, f, q, l, qp) ==
    RAdd(RAdd(RMul(RMul(f[1][q + 1], phi(cell, "li", qp, l)), weight(cell, "li", qp)),
              RMul(RMul(f[2][q + 1], phi(cell, "ri", qp, l)), weight(cell, "ri", qp))),
         RAdd(RMul(RMul(f[3][q + 1], phi(cell, "lj", qp, l)), weight(cell, "lj", qp)),
              RMul(RMul(f[4][q + 1], phi(cell, "rj", qp, l)), weight(cell, "rj", qp))))

RECURSIVE SurfaceTerm(_, _, _, _, _, _)
\* what the face nodes lo .. hi take from dwij[q * n_poly + l]
SurfaceTerm(cell, faces, q, l, lo, hi) ==
    IF lo > hi THEN Zero
    ELSE IF lo = hi THEN SurfaceNode(cell, faces[lo + 1], q, l, lo)
    ELSE LET mid == (lo + hi) \div 2
         IN  RAdd(SurfaceTerm(cell, faces, q, l, lo, mid),
                  SurfaceTerm(cell, faces, q, l, mid + 1, hi))

\* what interior node qp adds to dwij[q * n_poly + l]
VolumeNode(cell, f, q, l, qp) ==
    RAdd(RMul(RMul(f[1][q + 1], dphi_dx(cell, qp, l)), weight(cell, "in", qp)),
         RMul(RMul(f[2][q + 1], dphi_dy(cell, qp, l)), weight(cell, "in", qp)))

RECURSIVE VolumeTerm(_, _, _, _, _, _)
\* what the interior nodes lo .. hi add to dwij[q * n_poly + l]
VolumeTerm(cell, nodes, q, l, lo, hi) ==
    IF lo > hi THEN Zero
    ELSE IF lo = hi THEN VolumeNode(cell, nodes[lo + 1], q, l, lo)
    ELSE LET mid == (lo + hi) \div 2
         IN  RAdd(VolumeTerm(cell, nodes, q, l, lo, mid),
                  VolumeTerm(cell, nodes, q, l, mid + 1, hi))

\* dwij[k] after the surface and the volume term (the sums are exact, so
\* the order the loops add in does not show)
Residual(cell, faces, nodes, k) ==
    RSub(VolumeTerm(cell, nodes, k \div num_polynomials(cell),
                    k % num_polynomials(cell), 0, Len(nodes) - 1),
         SurfaceTerm(cell, faces, k \div num_polynomials(cell),
                     k % num_polynomials(cell), 0, Len(faces) - 1))

RECURSIVE ResidualIn(_, _, _, _, _)
\* dwij[lo .. hi] after the surface and the volume term, in a sequence
ResidualIn(cell, faces, nodes, lo, hi) ==
    IF lo > hi THEN <<>>
    ELSE IF lo = hi
    THEN <<Residual(cell, faces, nodes, lo)>>
    ELSE LET mid == (lo + hi) \div 2
         IN  ResidualIn(cell, faces, nodes, lo, mid) \o ResidualIn(cell, faces, nodes, mid + 1, hi)

\* wout[k] = wij[k] + 0.5 * dwij[k] * dt / dx for k in 0 .. NCONS * n_poly - 1
Updated(data, wij, n, dwij, dt, dx, outcome) ==
    [k \in 0..(n - 1) |->
        RAdd(data[wij + k],
             RDiv(RMul(RMul(Half, ScratchLoad(dwij[k + 1], k, outcome)), dt), dx))]

\* dwij[0 .. NCONS * n_poly - 1] of zone (i, j)
ResidualOf(cell, faces, nodes) ==
    ResidualIn(cell, faces, nodes, 0, NCONS * num_polynomials(cell) - 1)

\* the payload advance_rk_zone_dg stores at GET(weights_wr, i, j)
advance_rk_zone_dg(cell, mesh, weights_rd, data, dt, i, j, outcome) ==
    Updated(data, GET(weights_rd, i, j), NCONS * num_polynomials(cell),
            ResidualOf(cell,
                       SurfaceFluxesIn(cell, weights_rd, data, i, j, 0, cell.order - 1),
                       VolumeFluxesIn(cell, weights_rd, data, i, j, 0, num_quadrature_points(cell) - 1)),
            dt, mesh.dx, outcome)

-----------------------------------------------------------------------------
(* The limiter.  A store of the kernel is a pair <<k, v>>: wij[k] = v.      *)

Dot4(row, v) ==
    RAdd(RAdd(RAdd(RAdd(Zero, RMul(row[1], v[1])), RMul(row[2], v[2])),
              RMul(row[3], v[3])), RMul(row[4], v[4]))

\* c[qi] = sum over qj of m[qi][qj] * v[qj]
MatVec(m, v) == <<Dot4(m[1], v), Dot4(m[2], v), Dot4(m[3], v), Dot4(m[4], v)>>

Sub4(a, b) == <<RSub(a[1], b[1]), RSub(a[2], b[2]), RSub(a[3], b[3]), RSub(a[4], b[4])>>

\* <<w[0 * n_poly + l], ..., w[3 * n_poly + l]>> with w at offset base of data
Mode4(data, base, n_poly, l) ==
    << data[base + 0 * n_poly + l], data[base + 1 * n_poly + l],
       data[base + 2 * n_poly + l], data[base + 3 * n_poly + l] >>

\* the buffer data after the stores st, made in order, through the pointer
\* at offset base
Stored(data, base, st) ==
    [x \in DOMAIN data |->
        LET hits == {s \in 1..Len(st) : base + st[s][1] = x}
        IN  IF hits = {} THEN data[x]
            ELSE st[CHOOSE s \in hits : \A t \in hits : t <= s][2]]

RECURSIVE TailStores(_, _, _)
\* wij[q * n_poly + l] = 0.0 for l from lo to n_poly - 1
TailStores(n_poly, q, lo) ==
    IF lo >= n_poly THEN <<>>
    ELSE <<<<q * n_poly + lo, Zero>>>> \o TailStores(n_poly, q, lo + 1)

\* the indices of wij the kernel loads for field q: the mean and the slopes
LimitLoads(n_poly, q) == {q * n_poly + 0, q * n_poly + 1, q * n_poly + 2}

\* the indices of wij the kernel stores at when component q is limited: the
\* slopes and the tail
LimitStoresAt(n_poly, q) ==
    {q * n_poly + 2, q * n_poly + 1}
        \cup {TailStores(n_poly, q, 3)[k][1] : k \in 1..Len(TailStores(n_poly, q, 3))}

\* the eigenvector matrices lx, ly, rx, ry
EigenMatrices(vx, vy, cs, g1, k, h, ph, beta) ==
    [ lx |-> << << RMul(beta, RAdd(ph, RMul(cs, vx))), RMul(RNeg(beta), RAdd(RMul(g1, vx), cs)),
                   RMul(RMul(RNeg(beta), g1), vy), RMul(beta, g1) >>,
                << RSub(One, RMul(RMul(R(2), beta), ph)), RMul(RMul(RMul(R(2), beta), g1), vx),
                   RMul(RMul(RMul(R(2), beta), g1), vy), RMul(RMul(R(-2), beta), g1) >>,
                << RMul(beta, RSub(ph, RMul(cs, vx))), RMul(RNeg(beta), RSub(RMul(g1, vx), cs)),
                   RMul(RMul(RNeg(beta), g1), vy), RMul(beta, g1) >>,
                << vy, Zero, R(-1), Zero >> >>,
      ly |-> << << RMul(beta, RAdd(ph, RMul(cs, vy))), RMul(RMul(RNeg(beta), g1), vx),
                   RMul(RNeg(beta), RAdd(RMul(g1, vy), cs)), RMul(beta, g1) >>,
                << RSub(One, RMul(RMul(R(2), beta), ph)), RMul(RMul(RMul(R(2), beta), g1), vx),
                   RMul(RMul(RMul(R(2), beta), g1), vy), RMul(RMul(R(-2), beta), g1) >>,
                << RMul(beta, RSub(ph, RMul(cs, vy))), RMul(RMul(RNeg(beta), g1), vx),
                   RMul(RNeg(beta), RSub(RMul(g1, vy), cs)), RMul(beta, g1) >>,
                << RNeg(vx), One, Zero, Zero >> >>,
      rx |-> << << One, One, One, Zero >>,
                << RSub(vx, cs), vx, RAdd(vx, cs), Zero >>,
                << vy, vy, vy, R(-1) >>,
                << RSub(h, RMul(cs, vx)), k, RAdd(h, RMul(cs, vx)), RNeg(vy) >> >>,
      ry |-> << << One, One, One, Zero >>,
                << vx, vx, vx, One >>,
                << RSub(vy, cs), vy, RAdd(vy, cs), Zero >>,
                << RSub(h, RMul(cs, vy)), k, RAdd(h, RMul(cs, vy)), vx >> >> ]

\* h, phi and beta of the code, from cs2, g1 and k
EigenOf(vx, vy, cs2, g1, k) ==
    EigenMatrices(vx, vy, sqrt(cs2), g1, k, RAdd(RDiv(cs2, g1), k), RMul(g1, k),
                  RDiv(One, RMul(R(2), cs2)))

\* the eigenvector matrices of the primitive state prim
Eigenvectors(prim) ==
    EigenOf(prim[2], prim[3], primitive_to_sound_speed_squared(prim),
            RSub(ADIABATIC_GAMMA, One),
            RMul(Half, RAdd(RMul(prim[2], prim[2]), RMul(prim[3], prim[3]))))

\* the characteristic slopes c1, c2 and mean differences cl, cr, cb, ct
Characteristic(e, w0, w0l, w0r, w0b, w0t, w1, w2) ==
    [ c2 |-> MatVec(e.lx, w2),
      cl |-> MatVec(e.lx, Sub4(w0, w0l)),
      cr |-> MatVec(e.lx, Sub4(w0r, w0)),
      c1 |-> MatVec(e.ly, w1),
      cb |-> MatVec(e.ly, Sub4(w0, w0b)),
      ct |-> MatVec(e.ly, Sub4(w0t, w0)) ]

\* minmodB(SQRT_THREE * a, BETA_TVB * b, BETA_TVB * c, dl) / SQRT_THREE
LimitedSlope(a, b, c, dl, BETA_TVB, SQRT_THREE) ==
    RDiv(minmodB(RMul(SQRT_THREE, a), RMul(BETA_TVB, b), RMul(BETA_TVB, c), dl), SQRT_THREE)

\* the limited characteristic slopes c1t, c2t
Limited(mesh, c, B, S) ==
    [ c1t |-> << LimitedSlope(c.c1[1], c.cb[1], c.ct[1], mesh.dy, B, S),
                 LimitedSlope(c.c1[2], c.cb[2], c.ct[2], mesh.dy, B, S),
                 LimitedSlope(c.c1[3], c.cb[3], c.ct[3], mesh.dy, B, S),
                 LimitedSlope(c.c1[4], c.cb[4], c.ct[4], mesh.dy, B, S) >>,
      c2t |-> << LimitedSlope(c.c2[1], c.cl[1], c.cr[1], mesh.dx, B, S),
                 LimitedSlope(c.c2[2], c.cl[2], c.cr[2], mesh.dx, B, S),
                 LimitedSlope(c.c2[3], c.cl[3], c.cr[3], mesh.dx, B, S),
                 LimitedSlope(c.c2[4], c.cl[4], c.cr[4], mesh.dx, B, S) >> ]

\* the limited conserved slopes w1t, w2t, with what the test of the stores
\* compares
BackProjected(e, c, t) ==
    [ c1 |-> c.c1, c2 |-> c.c2, c1t |-> t.c1t, c2t |-> t.c2t,
      w1t |-> MatVec(e.ry, t.c1t), w2t |-> MatVec(e.rx, t.c2t) ]

LimitedOf(mesh, e, c) == BackProjected(e, c, Limited(mesh, c, One, sqrt(R(3))))

LimitedWith(mesh, e, w0, w0l, w0r, w0b, w0t, w1, w2) ==
    LimitedOf(mesh, e, Characteristic(e, w0, w0l, w0r, w0b, w0t, w1, w2))

\* what limit_characteristic_slopes_zone computes from what it loads: the
\* characteristic slopes c1, c2, their limited values c1t, c2t and the limited
\* conserved slopes w1t, w2t
LimitedSlopes(mesh, w0, w0l, w0r, w0b, w0t, w1, w2) ==
    LimitedWith(mesh, Eigenvectors(conserved_to_primitive(w0)), w0, w0l, w0r, w0b, w0t, w1, w2)

\* the fields q whose test (c2t[q] != c2[q]) || (c1t[q] != c1[q]) passes
Troubled(s) == {q \in 0..(NCONS - 1) : RNe(s.c2t[q + 1], s.c2[q + 1]) \/ RNe(s.c1t[q + 1], s.c1[q + 1])}

RECURSIVE LimitStores(_, _, _)
\* the stores into wij of the fields q .. NCONS - 1, in the order of the code
LimitStores(n_poly, s, q) ==
    IF q >= NCONS THEN <<>>
    ELSE (IF q \in Troubled(s)
          THEN << <<q * n_poly + 2, s.w2t[q + 1]>>, <<q * n_poly + 1, s.w1t[q + 1]>> >>
               \o TailStores(n_poly, q, 3)
          ELSE <<>>)
         \o LimitStores(n_poly, s, q + 1)

\* the copy loop: wout[k] = wij[k], from the buffer the stores went to
LimitCopy(wij, n, st, after) ==
    [ stores |-> st,
      rd     |-> after,
      wout   |-> [k \in 0..(n - 1) |-> after[wij + k]] ]

LimitOutcome(data, wij, n, st) == LimitCopy(wij, n, st, Stored(data, wij, st))

\* the characteristic and the limited slopes of zone (i, j), from the means
\* of the zone and of its four neighbours and the slopes of the zone
LimitedSlopesIn(cell, mesh, weights_rd, data, i, j) ==
    LimitedSlopes(mesh,
        Mode4(data, GET(weights_rd, i, j), num_polynomials(cell), 0),
        Mode4(data, GET(weights_rd, i - 1, j), num_polynomials(cell), 0),
        Mode4(data, GET(weights_rd, i + 1, j), num_polynomials(cell), 0),
        Mode4(data, GET(weights_rd, i, j - 1), num_polynomials(cell), 0),
        Mode4(data, GET(weights_rd, i, j + 1), num_polynomials(cell), 0),
        Mode4(data, GET(weights_rd, i, j), num_polynomials(cell), 1),
        Mode4(data, GET(weights_rd, i, j), num_polynomials(cell), 2))

\* limit_characteristic_slopes_zone on zone (i, j): the stores it makes
\* through wij (into the buffer it reads), the read buffer after them, and
\* the payload it copies to GET(weights_wr, i, j)
limit_characteristic_slopes_zone(cell, mesh, weights_rd, data, i, j) ==
    LimitOutcome(data, GET(weights_rd, i, j), NCONS * num_polynomials(cell),
        LimitStores(num_polynomials(cell),
                    LimitedSlopesIn(cell, mesh, weights_rd, data, i, j), 0))

\* wavespeed_zone on zone (i, j): the real it stores at GET(wavespeed, i, j)
wavespeed_zone(cell, weights, data, i, j) ==
    LET n_poly == num_polynomials(cell)
        wij == GET(weights, i, j)
        cons == Mode4(data, wij, n_poly, 0)
    IN  primitive_max_wavespeed(conserved_to_primitive(cons))

RECURSIVE MaxOver(_, _, _)
\* a_max after the loop over data[i], i from the n-th element on
MaxOver(a_max, data, n) ==
    IF n > Len(data) THEN a_max ELSE MaxOver(max2(a_max, data[n]), data, n + 1)

-----------------------------------------------------------------------------
(* The caller: a Cell, a Mesh and the buffers it allocates and fills.       *)

Orders == 0..6
Modes == {"CPU", "OMP", "GPU"}
Patterns == {"slopes", "jumps"}
\* what the memory past the end of a buffer can hold
JunkValues == {R(2), R(10)}
TimeSteps == {<<1, 4>>}
\* the arrays euler2d_dg_maximum is called with
Reals == {R(-3), R(-1), R(2)}
Arrays == UNION {[1..n -> Reals] : n \in 0..MaxSize}

\* the reals of a weights buffer: (ni + 2) * (nj + 2) zones of NCONS * n_poly
BufferSize(cell, mesh) ==
    (mesh.ni + 2 * NUM_GUARD) * (mesh.nj + 2 * NUM_GUARD) * NCONS * num_polynomials(cell)

\* the n_fields reals of zone (i, j) of patch p, as offsets
Payload(p, i, j) == {GET(p, i, j) + k : k \in 0..(p.num_fields - 1)}

\* the zones of a patch with its guard zones
Padded(mesh) == ((-NUM_GUARD)..(mesh.ni + NUM_GUARD - 1)) \X ((-NUM_GUARD)..(mesh.nj + NUM_GUARD - 1))

Interior(mesh) == (0..(mesh.ni - 1)) \X (0..(mesh.nj - 1))

\* the interior zone a guard zone copies on a periodic domain
Wrap(mesh, z) == <<(z[1] + mesh.ni) % mesh.ni, (z[2] + mesh.nj) % mesh.nj>>

\* coefficient l of field q of interior zone z in the states the caller
\* starts from.  "slopes": a uniform mean state with an x slope in the x
\* momentum and in the energy.  "jumps": two mean states of sound speed 5 in
\* a checkerboard, no slopes, an energy coefficient in mode 3.
PatternValue(pat, z, q, l) ==
    LET moving == pat = "jumps" /\ (z[1] + z[2]) % 2 = 1
    IN  IF l = 0
        THEN CASE q = 0 -> R(10)
               [] q = 1 -> IF moving THEN R(10) ELSE Zero
               [] q = 2 -> Zero
               [] OTHER -> IF moving THEN R(230) ELSE R(225)
        ELSE IF pat = "slopes" /\ l = 2 /\ q = 1 THEN R(-10)
        ELSE IF pat = "slopes" /\ l = 2 /\ q = 3 THEN R(15)
        ELSE IF pat = "jumps" /\ l = 3 /\ q = 3 THEN R(216)
        ELSE Zero

\* a weights buffer whose zone (i, j) holds w[z][q * n_poly + l], followed by
\* Slack reals that are not the buffer's
Weights(cell, mesh, w, junk) ==
    LET n_poly == num_polynomials(cell)
        nf == NCONS * n_poly
    IN  [x \in 0..(BufferSize(cell, mesh) + Slack - 1) |->
            IF x >= BufferSize(cell, mesh) THEN junk
            ELSE LET zi == x \div nf
                     z == <<(zi \div (mesh.nj + 2 * NUM_GUARD)) - NUM_GUARD,
                            (zi % (mesh.nj + 2 * NUM_GUARD)) - NUM_GUARD>>
                 IN  w[z][x % nf]]

\* the caller's initial state: pattern pat in the interior, guards periodic
InitialWeights(cell, mesh, pat, junk) ==
    LET n_poly == num_polynomials(cell)
    IN  Weights(cell, mesh,
                [z \in Padded(mesh) |->
                    [k \in 0..(NCONS * n_poly - 1) |->
                        PatternValue(pat, Wrap(mesh, z), k \div n_poly, k % n_poly)]],
                junk)

\* the write buffer before a pass: every real a NaN
Sentinel(cell, mesh, junk) ==
    [x \in 0..(BufferSize(cell, mesh) + Slack - 1) |->
        IF x >= BufferSize(cell, mesh) THEN junk ELSE NaN]

\* the next read buffer: the interior of the buffer a pass wrote, its guard
\* zones filled from the opposite side
Refill(cell, mesh, data) ==
    LET p == patch(mesh, NCONS * num_polynomials(cell), NUM_GUARD)
    IN  Weights(cell, mesh,
                [z \in Padded(mesh) |->
                    [k \in 0..(p.num_fields - 1) |->
                        data[GET(p, Wrap(mesh, z)[1], Wrap(mesh, z)[2]) + k]]],
                data[BufferSize(cell, mesh)])

-----------------------------------------------------------------------------
(* PUBLIC API: the state of a run and the entry points.                     *)

VARIABLES
    cell,       \* struct Cell: [order]
    mesh,       \* struct Mesh: [ni, nj, dx, dy]
    rd,         \* the buffer of weights_rd_ptr (weights_ptr), with its slack
    wr,         \* the buffer of weights_wr_ptr, with its slack
    ws,         \* the array of wavespeed_ptr
    dt,         \* the time step of the call
    op,         \* the entry point being run, "idle" before the first call
    mode,       \* the ExecutionMode of the call
    openmp,     \* whether the build defines _OPENMP
    todo,       \* the zones the loop of the entry point has yet to run
    pass,       \* the number of passes started
    ret,        \* what euler2d_dg_maximum, or the function called by itself, returned
    rd0,        \* rd when the current pass started
    wr0,        \* wr when the current pass started
    ws0,        \* ws when the current pass started
    log,        \* per zone: the slots its task loaded and stored, its visits
    troubled,   \* the zones the previous limit_slopes pass stored slopes in
    args        \* the arguments of the function of the file called by itself

vars == <<cell, mesh, rd, wr, ws, dt, op, mode, openmp, todo, pass, ret, rd0, wr0, ws0, log, troubled, args>>

\* Runs with the OMP branch compiled whether or not _OPENMP is defined
Runs_always_omp(m, b) == m \in {"CPU", "OMP"}

\* the build has a backend for the mode: the CPU loop always, the OpenMP loop
\* under _OPENMP; the GPU branches are empty in a host build
Runs(m, b) == m = "CPU" \/ (m = "OMP" /\ b)

weights_rd == patch(mesh, num_polynomials(cell) * NCONS, NUM_GUARD)
weights_wr == patch(mesh, num_polynomials(cell) * NCONS, NUM_GUARD)
wavespeed == patch(mesh, 1, 0)

NoLog == [z \in Padded(mesh) |-> [reads |-> {}, writes |-> {}, visits |-> 0]]

Logged(z, reads, writes) ==
    [log EXCEPT ![z] = [reads |-> @.reads \cup reads, writes |-> @.writes \cup writes,
                        visits |-> @.visits + 1]]

\* the zone the loops run next: FOR_EACH runs them in the order of (i, j);
\* FOR_EACH_OMP hands the rows i to threads, each row in the order of j
Ready(z) ==
    /\ z \in todo
    /\ \A y \in todo : y[1] = z[1] => z[2] <= y[2]
    /\ mode = "CPU" => \A y \in todo : z[1] <= y[1]

\* data with the reals out stored from offset base on
Written(data, base, out) ==
    [x \in DOMAIN data |-> IF (x - base) \in DOMAIN out THEN out[x - base] ELSE data[x]]

Inputs ==
    { c \in [order : Orders, ni : 1..MaxNi, nj : 1..MaxNj, pat : Patterns, junk : JunkValues] :
        /\ num_polynomials(c) * c.ni * c.nj <= MaxDof
        /\ num_polynomials(c) > 0 => c.junk = R(2) }

Init ==
    \E c \in Inputs :
        /\ cell = [order |-> c.order]
        /\ mesh = [ni |-> c.ni, nj |-> c.nj, dx |-> One, dy |-> One]
        /\ rd = InitialWeights([order |-> c.order], [ni |-> c.ni, nj |-> c.nj], c.pat, c.junk)
        /\ wr = Sentinel([order |-> c.order], [ni |-> c.ni, nj |-> c.nj], c.junk)
        /\ ws = [x \in 0..(c.ni * c.nj - 1) |-> NaN]
        /\ dt = Zero
        /\ op = "idle"
        /\ mode = "CPU"
        /\ openmp = FALSE
        /\ todo = {}
        /\ pass = 0
        /\ ret = NaN
        /\ rd0 = rd
        /\ wr0 = wr
        /\ ws0 = ws
        /\ log = [z \in Padded([ni |-> c.ni, nj |-> c.nj]) |-> [reads |-> {}, writes |-> {}, visits |-> 0]]
        /\ troubled = {}
        /\ args = <<>>

\* a call of euler2d_dg_advance_rk, euler2d_dg_limit_slopes or
\* euler2d_dg_wavespeed up to its loop
Call(o, m, b, t) ==
    /\ op = "idle"
    /\ m = "OMP" \/ ~b
    /\ o = "advance" \/ t = Zero
    /\ op' = o
    /\ mode' = m
    /\ openmp' = b
    /\ dt' = t
    /\ todo' = IF Runs(m, b) THEN FOR_EACH(weights_rd, NUM_GUARD) ELSE {}
    /\ pass' = 1
    /\ UNCHANGED <<cell, mesh, rd, wr, ws, ret, rd0, wr0, ws0, log, troubled, args>>

\* one iteration of the loop of euler2d_dg_advance_rk
AdvanceZone(z, outcome) ==
    /\ op = "advance"
    /\ Ready(z)
    /\ wr' = Written(wr, GET(weights_wr, z[1], z[2]),
                      advance_rk_zone_dg(cell, mesh, weights_rd, rd, dt, z[1], z[2], outcome))
    /\ log' = Logged(z,
                     {<<"rd", x>> : x \in Payload(weights_rd, z[1], z[2])
                                        \cup Payload(weights_rd, z[1] - 1, z[2])
                                        \cup Payload(weights_rd, z[1] + 1, z[2])
                                        \cup Payload(weights_rd, z[1], z[2] - 1)
                                        \cup Payload(weights_rd, z[1], z[2] + 1)},
                     {<<"wr", x>> : x \in Payload(weights_wr, z[1], z[2])})
    /\ todo' = todo \ {z}
    /\ UNCHANGED <<cell, mesh, rd, ws, dt, op, mode, openmp, pass, ret, rd0, wr0, ws0, troubled, args>>

\* the zone (i, j) after limit_characteristic_slopes_zone made the stores
\* and the copy r
Limit(z, wij, n_poly, r) ==
    /\ rd' = r.rd
    /\ wr' = Written(wr, GET(weights_wr, z[1], z[2]), r.wout)
    /\ log' = Logged(z,
              {<<"rd", wij + k>> : k \in UNION {LimitLoads(n_poly, q) : q \in 0..(NCONS - 1)}}
                \cup {<<"rd", GET(weights_rd, y[1], y[2]) + q * n_poly>> :
                        y \in {<<z[1] - 1, z[2]>>, <<z[1] + 1, z[2]>>,
                               <<z[1], z[2] - 1>>, <<z[1], z[2] + 1>>},
                        q \in 0..(NCONS - 1)}
                \cup {<<"rd", wij + k>> : k \in 0..(NCONS * n_poly - 1)},
              {<<"rd", wij + r.stores[n][1]>> : n \in 1..Len(r.stores)}
                \cup {<<"wr", x>> : x \in Payload(weights_wr, z[1], z[2])})

\* one iteration of the loop of euler2d_dg_limit_slopes
LimitZone(z) ==
    /\ op = "limit"
    /\ Ready(z)
    /\ Limit(z, GET(weights_rd, z[1], z[2]), num_polynomials(cell),
             limit_characteristic_slopes_zone(cell, mesh, weights_rd, rd, z[1], z[2]))
    /\ todo' = todo \ {z}
    /\ UNCHANGED <<cell, mesh, ws, dt, op, mode, openmp, pass, ret, rd0, wr0, ws0, troubled, args>>

\* one iteration of the loop of euler2d_dg_wavespeed
WavespeedZone(z) ==
    /\ op = "wavespeed"
    /\ Ready(z)
    /\ ws' = [ws EXCEPT ![GET(wavespeed, z[1], z[2])] =
                  wavespeed_zone(cell, weights_rd, rd, z[1], z[2])]
    /\ log' = Logged(z,
                     {<<"rd", GET(weights_rd, z[1], z[2]) + q * num_polynomials(cell)>> :
                         q \in 0..(NCONS - 1)},
                     {<<"ws", GET(wavespeed, z[1], z[2])>>})
    /\ todo' = todo \ {z}
    /\ UNCHANGED <<cell, mesh, rd, wr, dt, op, mode, openmp, pass, ret, rd0, wr0, ws0, troubled, args>>

\* euler2d_dg_maximum(data, size, mode): the array becomes ws (and ws0)
euler2d_dg_maximum(data, m, b) ==
    IF Runs(m, b) THEN MaxOver(Zero, data, 1) ELSE Zero

Maximum(data, m, b) ==
    /\ op = "idle"
    /\ m = "OMP" \/ ~b
    /\ op' = "maximum"
    /\ mode' = m
    /\ openmp' = b
    /\ ws' = [x \in 0..(Len(data) - 1) |-> data[x + 1]]
    /\ ws0' = ws'
    /\ ret' = euler2d_dg_maximum(data, m, b)
    /\ pass' = 1
    /\ UNCHANGED <<cell, mesh, rd, wr, dt, todo, rd0, wr0, log, troubled, args>>

\* the caller after a limit_slopes pass: the buffer written becomes the one
\* read, with its guard zones filled, and euler2d_dg_limit_slopes is called
\* again in the same mode
LimitAgain ==
    /\ op = "limit"
    /\ todo = {}
    /\ pass < MaxPasses
    /\ rd' = Refill(cell, mesh, wr)
    /\ wr' = Sentinel(cell, mesh, wr[BufferSize(cell, mesh)])
    /\ rd0' = rd'
    /\ wr0' = wr'
    /\ todo' = IF Runs(mode, openmp) THEN FOR_EACH(weights_rd, NUM_GUARD) ELSE {}
    /\ log' = NoLog
    /\ troubled' = {z \in DOMAIN log : \E x \in log[z].writes : x[1] = "rd"}
    /\ pass' = pass + 1
    /\ UNCHANGED <<cell, mesh, ws, dt, op, mode, openmp, ret, ws0, args>>

Next ==
    \/ \E o \in {"advance", "limit", "wavespeed"}, m \in Modes, b \in BOOLEAN, t \in TimeSteps \cup {Zero} :
           Call(o, m, b, t)
    \/ \E z \in todo, outcome \in ScratchOutcomes : AdvanceZone(z, outcome)
    \/ \E z \in todo : LimitZone(z)
    \/ \E z \in todo : WavespeedZone(z)
    \/ \E data \in Arrays, m \in Modes, b \in BOOLEAN : Maximum(data, m, b)
    \/ LimitAgain

Spec == Init /\ [][Next]_vars

\* the loop of the entry point has ended
Done == op \in {"advance", "limit", "wavespeed"} /\ todo = {}

-----------------------------------------------------------------------------
(* The functions of the file called by themselves: riemann_hlle and the     *)
(* two minmod limiters, each applied once to arguments the caller picks.    *)

\* the primitive states <<rho, vx, vy, pressure>> the caller picks from:
\* positive density and pressure, at rest, subsonic and supersonic
Primitives ==
    { <<rho, vx, vy, pressure>> : rho \in {R(1), R(4)}, vx \in {R(-8), R(0), R(8)},
                                  vy \in {R(0), R(8)}, pressure \in {R(2), R(15)} }
\* the slopes, differences of means and zone widths the caller picks from
Slopes == {R(-3), <<-1, 2>>, Zero, Half, R(2), R(5)}
Means == {R(-4), Zero, R(3)}
Widths == {One, Half}

\* the state of the passes, which a call of one of these functions leaves
passVars == <<cell, mesh, rd, wr, ws, dt, mode, openmp, todo, pass, rd0, wr0, ws0, log, troubled>>

InitUnits ==
    /\ cell = [order |-> 1]
    /\ mesh = [ni |-> 1, nj |-> 1, dx |-> One, dy |-> One]
    /\ rd = <<>> /\ wr = <<>> /\ ws = <<>>
    /\ dt = Zero
    /\ op = "idle"
    /\ mode = "CPU"
    /\ openmp = FALSE
    /\ todo = {}
    /\ pass = 0
    /\ ret = NaN
    /\ rd0 = <<>> /\ wr0 = <<>> /\ ws0 = <<>>
    /\ log = <<>>
    /\ troubled = {}
    /\ args = <<>>

\* riemann_hlle(pl, pr, flux, direction): ret is flux
Hlle(pl, pr, direction) ==
    /\ op = "idle"
    /\ op' = "riemann_hlle"
    /\ args' = [pl |-> pl, pr |-> pr, direction |-> direction]
    /\ ret' = riemann_hlle(pl, pr, direction)
    /\ UNCHANGED passVars

\* minmodB(a, b, c, dl)
MinmodB(a, b, c, dl) ==
    /\ op = "idle"
    /\ op' = "minmodB"
    /\ args' = [a |-> a, b |-> b, c |-> c, dl |-> dl]
    /\ ret' = minmodB(a, b, c, dl)
    /\ UNCHANGED passVars

\* minmodTVB(w1, w0l, w0, w0r, dl)
MinmodTVB(w1, w0l, w0, w0r, dl) ==
    /\ op = "idle"
    /\ op' = "minmodTVB"
    /\ args' = [w1 |-> w1, w0l |-> w0l, w0 |-> w0, w0r |-> w0r, dl |-> dl]
    /\ ret' = minmodTVB(w1, w0l, w0, w0r, dl)
    /\ UNCHANGED passVars

NextUnits ==
    \/ \E pl \in Primitives, pr \in Primitives, direction \in {0, 1} : Hlle(pl, pr, direction)
    \/ \E a \in Slopes, b \in Slopes, c \in Slopes, dl \in Widths : MinmodB(a, b, c, dl)
    \/ \E w1 \in Slopes, w0l \in Means, w0 \in Means, w0r \in Means, dl \in Widths :
           MinmodTVB(w1, w0l, w0, w0r, dl)

SpecUnits == InitUnits /\ [][NextUnits]_vars

-----------------------------------------------------------------------------
(* What the passes are checked against. *)

\* the pass ran in a mode the build has a backend for, with a valid order
Ran == Done /\ Runs(mode, openmp) /\ cell.order \in 1..5

\* no task stored to a slot that the task of another zone loaded or stored
Independent ==
    \A y \in DOMAIN log : \A z \in DOMAIN log :
        y # z => log[y].writes \cap (log[z].reads \cup log[z].writes) = {}

\* zone z of the write buffer holds what advance_rk_zone_dg computes from
\* the read buffer when every load of dwij returns what was stored there
AsComputed(z, out) ==
    \A k \in DOMAIN out : wr[GET(weights_wr, z[1], z[2]) + k] = out[k]

\* the write buffer is the one the loop of euler2d_dg_advance_rk leaves when
\* every load of dwij returns what was stored there
AdvancedInOrder ==
    /\ \A z \in FOR_EACH(weights_rd, NUM_GUARD) :
           AsComputed(z, advance_rk_zone_dg(cell, mesh, weights_rd, rd0, dt, z[1], z[2], "kept"))
    /\ \A z \in Padded(mesh) \ FOR_EACH(weights_rd, NUM_GUARD) :
           \A x \in Payload(weights_wr, z[1], z[2]) : wr[x] = wr0[x]

\* the zone FOR_EACH runs first among the zones S
First(S) == CHOOSE z \in S : \A y \in S : z[1] < y[1] \/ (z[1] = y[1] /\ z[2] <= y[2])

RECURSIVE LimitedInOrder(_, _, _), LimitedNext(_, _, _, _, _)
\* the buffers the loop of euler2d_dg_limit_slopes leaves, run over the zones
\* S in the order of FOR_EACH from the buffers data (read) and out (written)
LimitedInOrder(data, out, S) ==
    IF S = {} THEN [rd |-> data, wr |-> out]
    ELSE LimitedNext(data, out, S, First(S),
                     limit_characteristic_slopes_zone(cell, mesh, weights_rd, data,
                                                      First(S)[1], First(S)[2]))

LimitedNext(data, out, S, z, r) ==
    LimitedInOrder(r.rd, Written(out, GET(weights_wr, z[1], z[2]), r.wout), S \ {z})

RECURSIVE Sum0(_, _, _)
\* the sum over the zones S of coefficient l = 0 of field q in the buffer data
Sum0(data, q, S) ==
    IF S = {} THEN Zero
    ELSE RAdd(data[GET(weights_rd, First(S)[1], First(S)[2]) + q * num_polynomials(cell)],
              Sum0(data, q, S \ {First(S)}))

\* every zone of the buffer data has zero coefficients l = 1 and l = 2
ZeroSlopes(data) ==
    \A z \in Padded(mesh) : \A q \in 0..(NCONS - 1) :
        \A l \in {1, 2} \cap (0..(num_polynomials(cell) - 1)) :
            data[GET(weights_rd, z[1], z[2]) + q * num_polynomials(cell) + l] = Zero

\* the interior zones of the write buffer hold what the read buffer held when
\* the pass started
InteriorCopied ==
    \A z \in Interior(mesh) : \A x \in Payload(weights_wr, z[1], z[2]) : wr[x] = rd0[x]

-----------------------------------------------------------------------------
(* The claims. *)

\* C1: after every pass with an order in 1..5 every slot of the read buffer,
\* interior and guard, holds what it held before the pass, and every store of
\* the pass went to the write patch (to the wavespeed array for wavespeed).
C1_ReadPatchNeverWritten ==
    (Done /\ cell.order \in 1..5) =>
        /\ rd = rd0
        /\ \A z \in DOMAIN log : \A x \in log[z].writes :
               x[1] = (IF op = "wavespeed" THEN "ws" ELSE "wr")

\* C2: in an advance_rk pass no task stores to a slot another task loads or
\* stores, and whatever the order the zones ran in, the write buffer is the
\* one the sequential loop produces.
C2_AdvanceOrderFree ==
    (Ran /\ op = "advance") => (Independent /\ AdvancedInOrder)

\* C3: in a limit_slopes pass with an order in 1..5 no task stores to a slot
\* (of either buffer) that the task of another zone loads or stores, and
\* whatever the order the zones ran in, both buffers end as the sequential
\* loop leaves them.
C3_LimitOrderFree ==
    (Ran /\ op = "limit") =>
        /\ Independent
        /\ rd = LimitedInOrder(rd0, wr0, FOR_EACH(weights_rd, NUM_GUARD)).rd
        /\ wr = LimitedInOrder(rd0, wr0, FOR_EACH(weights_rd, NUM_GUARD)).wr

\* C4: after a CPU pass of advance_rk or limit_slopes with an order in 1..5
\* every payload slot of every interior zone of the write patch was stored to
\* by the task of that zone, every interior zone was visited exactly once, and
\* no slot of a guard zone of the write patch was stored to.  The stored
\* value is a number, the sentinel being NaN, wherever the pass computes one:
\* at order 1 the limiter loads its slopes from outside the field, and what
\* it stores may itself be NaN.
C4_InteriorAssignedOnce ==
    (Done /\ mode = "CPU" /\ op \in {"advance", "limit"} /\ cell.order \in 1..5) =>
        /\ \A z \in Interior(mesh) :
               /\ log[z].visits = 1
               /\ \A x \in Payload(weights_wr, z[1], z[2]) :
                      /\ <<"wr", x>> \in log[z].writes
                      /\ (op = "advance" \/ cell.order >= 2) => ~IsNaN(wr[x])
        /\ \A z \in Padded(mesh) \ Interior(mesh) :
               /\ log[z].visits = 0
               /\ \A x \in Payload(weights_wr, z[1], z[2]) :
                      wr[x] = wr0[x] /\ \A y \in DOMAIN log : <<"wr", x>> \notin log[y].writes

C4_Witness ==
    /\ Done /\ mode = "CPU" /\ op = "advance" /\ cell.order = 5
    /\ mesh.ni * mesh.nj = 2
    /\ \A z \in Interior(mesh) : log[z].visits = 1

\* C5: in a mode the build has no backend for (OMP without _OPENMP, GPU in a
\* host build) advance_rk, limit_slopes and wavespeed change no slot of the
\* read buffer, the write buffer or the wavespeed array and visit no zone;
\* maximum in GPU mode returns 0.0 whatever the array holds.
C5_NoBackendNoOp ==
    /\ (op \in {"advance", "limit", "wavespeed"} /\ (mode = "GPU" \/ (mode = "OMP" /\ ~openmp))) =>
           /\ rd = rd0 /\ wr = wr0 /\ ws = ws0
           /\ todo = {}
           /\ \A z \in DOMAIN log : log[z].visits = 0 /\ log[z].reads = {} /\ log[z].writes = {}
    /\ (op = "maximum" /\ mode = "GPU") => ret = Zero

C5_Witness ==
    \/ op = "limit" /\ mode = "OMP" /\ ~openmp /\ pass = MaxPasses /\ cell.order = 2
    \/ op = "maximum" /\ mode = "GPU" /\ \E x \in DOMAIN ws : RGt(ws[x], Zero)

\* C6: with an order outside 1..5 num_polynomials is 0 and a pass of
\* advance_rk, limit_slopes or wavespeed loads and stores no slot through a
\* weights pointer, so the write buffer is as the caller provided it.
C6_BadOrderNoOp ==
    (Done /\ cell.order \notin 1..5) =>
        /\ num_polynomials(cell) = 0
        /\ \A z \in DOMAIN log :
               /\ \A x \in log[z].reads : x[1] \notin {"rd", "wr"}
               /\ \A x \in log[z].writes : x[1] \notin {"rd", "wr"}
        /\ wr = wr0

\* C7: the offset of zone (i, j) of a weights patch is
\* num_fields * (nj + 2) * (i + 1) + num_fields * (j + 1); the payloads of the
\* zones of [-1, ni + 1) x [-1, nj + 1) lie inside the buffer and are
\* disjoint; the stencil of an interior zone stays in that range; the
\* wavespeed patch maps interior (i, j) to nj * i + j inside [0, ni * nj).
C7_PatchOffsets ==
    /\ \A z \in Padded(mesh) :
           /\ GET(weights_rd, z[1], z[2]) =
                  weights_rd.num_fields * (mesh.nj + 2) * (z[1] + 1) + weights_rd.num_fields * (z[2] + 1)
           /\ Payload(weights_rd, z[1], z[2]) \subseteq 0..(BufferSize(cell, mesh) - 1)
           /\ Cardinality(Payload(weights_rd, z[1], z[2])) = NCONS * num_polynomials(cell)
           /\ \A y \in Padded(mesh) :
                  y # z => Payload(weights_rd, y[1], y[2]) \cap Payload(weights_rd, z[1], z[2]) = {}
    /\ \A z \in Interior(mesh) :
           /\ {<<z[1] - 1, z[2]>>, <<z[1] + 1, z[2]>>, <<z[1], z[2] - 1>>, <<z[1], z[2] + 1>>}
                  \subseteq Padded(mesh)
           /\ GET(wavespeed, z[1], z[2]) = mesh.nj * z[1] + z[2]
           /\ GET(wavespeed, z[1], z[2]) \in 0..(mesh.ni * mesh.nj - 1)

C7_Witness ==
    /\ Done /\ op = "wavespeed" /\ cell.order = 3 /\ mesh.ni = 1 /\ mesh.nj = 2
    /\ \A z \in Interior(mesh) : log[z].visits = 1

\* C8: on a periodic domain one advance_rk pass keeps, for every conserved
\* field q, the sum over the interior zones of coefficient l = 0.
C8_MeansConserved ==
    (Ran /\ op = "advance") =>
        \A q \in 0..(NCONS - 1) :
            Sum0(wr, q, Interior(mesh)) = Sum0(rd0, q, Interior(mesh))

\* C9: a second limit_slopes pass, run on the output of a first pass that
\* stored limited slopes in some zone (guards filled from that output),
\* leaves every coefficient of every interior zone as the first pass left
\* it.  Stated for the orders 2..5, whose zones hold slope coefficients.
C9_LimiterIdempotent ==
    (Ran /\ op = "limit" /\ pass = 2 /\ troubled # {} /\ cell.order \in 2..5) => InteriorCopied

\* C10: if every zone has zero coefficients l = 1 and l = 2 in every field,
\* limit_slopes copies every interior zone to the write patch unchanged and
\* leaves the read buffer as it was.
C10_ZeroSlopesFixed ==
    (Ran /\ op = "limit" /\ ZeroSlopes(rd0)) => (InteriorCopied /\ rd = rd0)

\* C11: for equal left and right primitive states P of positive density and
\* pressure and either direction, riemann_hlle(P, P, direction) is
\* primitive_to_flux(P, primitive_to_conserved(P), direction) in every
\* component (in the exact arithmetic of the model), the wavespeeds
\* am = min2(0, vn - cs) and ap = max2(0, vn + cs) having ap - am > 0.
C11_HlleConsistent ==
    (op = "riemann_hlle" /\ args.pl = args.pr
        /\ RGt(args.pl[1], Zero) /\ RGt(args.pl[4], Zero)) =>
        /\ ret = primitive_to_flux(args.pl, primitive_to_conserved(args.pl), args.direction)
        /\ RGt(RSub(max2(Zero, primitive_to_outer_wavespeeds(args.pl, args.direction)[2]),
                    min2(Zero, primitive_to_outer_wavespeeds(args.pl, args.direction)[1])),
               Zero)

\* equal states moving faster than sound along the direction of the face,
\* with a flux that is not zero
C11_Witness ==
    /\ op = "riemann_hlle" /\ args.pl = args.pr /\ args.direction = 1
    /\ RGt(primitive_to_outer_wavespeeds(args.pl, 1)[1], Zero)
    /\ RNe(ret[1], Zero) /\ RNe(ret[4], Zero)

\* C12: in CPU mode euler2d_dg_maximum returns the maximum of the array: a
\* value no element exceeds and, the array not being empty, one of its
\* elements, also when every element is negative.
C12_MaximumOfArray ==
    (op = "maximum" /\ mode = "CPU") =>
        /\ \A x \in DOMAIN ws : RLe(ws[x], ret)
        /\ DOMAIN ws # {} => \E x \in DOMAIN ws : ret = ws[x]

\* C13: for every order in 1..5 every index at which advance_rk_zone_dg
\* stores into dwij, and every index at which limit_conserved_slopes_zone
\* stores into wtilde, is below MAX_NUM_FIELDS, the length both arrays are
\* declared with.
C13_ScratchFits ==
    (Ran /\ op = "advance") =>
        /\ \A k \in ScratchStores(cell) : k < MAX_NUM_FIELDS
        /\ \A k \in WtildeStores(cell) : k < MAX_NUM_FIELDS

\* field q of zone z of the write patch against the slopes s the limiter
\* computes for the zone: coefficient l = 0 as in the input; if component q
\* of the limited characteristic slopes differs from the unlimited one in
\* either direction, coefficients l = 1 and l = 2 are the back-projected
\* limited slopes and the coefficients l >= 3 are 0; if not, every
\* coefficient is as in the input
FieldAsLimited(z, q, s) ==
    LET n_poly == num_polynomials(cell)
        wq == GET(weights_wr, z[1], z[2]) + q * n_poly
    IN  /\ wr[wq] = rd0[wq]
        /\ IF q \in Troubled(s)
           THEN /\ wr[wq + 1] = s.w1t[q + 1]
                /\ wr[wq + 2] = s.w2t[q + 1]
                /\ \A l \in 3..(n_poly - 1) : wr[wq + l] = Zero
           ELSE \A l \in 0..(n_poly - 1) : wr[wq + l] = rd0[wq + l]

\* C14: after a limit_slopes pass, for every interior zone and every field
\* q: if c1t[q] != c1[q] or c2t[q] != c2[q], coefficients l = 1 and l = 2 of
\* field q of the output are the back-projected limited slopes and the
\* coefficients l >= 3 are 0; otherwise field q is copied from the input; in
\* both cases coefficient l = 0 of every field is the one of the input.
C14_FieldwiseOutput ==
    (Ran /\ op = "limit") =>
        \A z \in Interior(mesh) : \A q \in 0..(NCONS - 1) :
            FieldAsLimited(z, q, LimitedSlopesIn(cell, mesh, weights_rd, rd0, z[1], z[2]))

\* 0 unless a, b and c have the same sign, and then that sign times
\* min(|a|, |b|, |c|)
SameSignMin(a, b, c) ==
    IF RGt(a, Zero) /\ RGt(b, Zero) /\ RGt(c, Zero) THEN minabs(a, b, c)
    ELSE IF RLt(a, Zero) /\ RLt(b, Zero) /\ RLt(c, Zero) THEN RNeg(minabs(a, b, c))
    ELSE Zero

\* C15: minmodB(a, b, c, dl) returns a when |a| <= 1 * dl^2, and otherwise 0
\* unless a, b and c have the same sign, when it returns that sign times
\* min(|a|, |b|, |c|); the result is at most |a| in magnitude and is 0 or of
\* the sign of a.  minmodTVB(w1, w0l, w0, w0r, dl) returns w1 when
\* |sqrt(3) * w1| <= 10 * dl^2, and otherwise the same function of
\* a = sqrt(3) * w1, b = w0 - w0l, c = w0r - w0, divided by sqrt(3).
C15_MinmodShape ==
    /\ op = "minmodB" =>
           /\ ret = IF RLe(fabs(args.a), RMul(RMul(One, args.dl), args.dl))
                    THEN args.a
                    ELSE SameSignMin(args.a, args.b, args.c)
           /\ RLe(fabs(ret), fabs(args.a))
           /\ ret = Zero \/ sign(ret) = sign(args.a)
    /\ op = "minmodTVB" =>
           ret = IF RLe(fabs(RMul(args.w1, sqrt(R(3)))), RMul(RMul(R(10), args.dl), args.dl))
                 THEN args.w1
                 ELSE RDiv(SameSignMin(RMul(args.w1, sqrt(R(3))), RSub(args.w0, args.w0l),
                                       RSub(args.w0r, args.w0)),
                           sqrt(R(3)))

\* minmodB above its threshold with three negative arguments, of which a is
\* not the smallest in magnitude
C15_Witness ==
    /\ op = "minmodB"
    /\ RGt(fabs(args.a), RMul(args.dl, args.dl))
    /\ RLt(args.a, Zero) /\ RLt(args.b, Zero) /\ RLt(args.c, Zero)
    /\ RLt(ret, Zero) /\ ret # args.a

\* C16: in a limit_slopes pass with an order in 1..5 every index the kernel
\* loads or stores for field q of a zone (the mean q * n_poly, the slopes
\* q * n_poly + 1 and q * n_poly + 2, the tail l >= 3) lies in the block
\* q * n_poly .. (q + 1) * n_poly - 1 of the field, and every store a task
\* makes into the read buffer lands in the payload of its own zone.
C16_LimiterStaysInField ==
    (Ran /\ op = "limit") =>
        /\ \A q \in 0..(NCONS - 1) :
               LimitLoads(num_polynomials(cell), q) \cup LimitStoresAt(num_polynomials(cell), q)
                   \subseteq (q * num_polynomials(cell))..((q + 1) * num_polynomials(cell) - 1)
        /\ \A z \in Interior(mesh) : \A x \in log[z].writes :
               x[1] = "rd" => x[2] \in Payload(weights_rd, z[1], z[2])

=============================================================================
